---- MODULE Spec2Model ----
(***************************************************************************)
(* Request orchestration pipeline of the tourism backend:                  *)
(* TourismParentAgent.handle_message with its intent parser, place-name    *)
(* extractor and reply composer, the three provider clients it awaits      *)
(* (Nominatim geocoding, Open-Meteo weather, Overpass POI search) and the  *)
(* curated places table.                                                   *)
(*                                                                         *)
(* Text is a sequence of atoms.  User text, place phrases, location names  *)
(* and provider POI names are sequences of one-character atoms, so that    *)
(* strip(), lower(), split(), substring tests and the regular expressions  *)
(* work on characters.  The fixed sentences of the replies and the curated *)
(* place names are single atoms: the code only concatenates them.          *)
(* Optional[T] is a sequence: <<>> is None and <<v>> is the value v.       *)
(***************************************************************************)
EXTENDS Integers, Sequences, FiniteSets, TLC

\* ---------------------------------------------------------------- bounds

\* Number of vocabulary words a text given to the intent parser is made of.
MaxTokens == 3

\* Number of vocabulary words a message given to handle_message is made of.
MaxMsgTokens == 2

\* ------------------------------------------------------ characters, text

None == <<>>

Some(v) == <<v>>

UPPER == <<"A", "B", "C", "D", "E", "F", "G", "H", "I", "J", "K", "L", "M", "N", "O", "P", "Q", "R", "S", "T", "U", "V", "W", "X", "Y", "Z">>

LOWER == <<"a", "b", "c", "d", "e", "f", "g", "h", "i", "j", "k", "l", "m", "n", "o", "p", "q", "r", "s", "t", "u", "v", "w", "x", "y", "z">>

Digits == {"0", "1", "2", "3", "4", "5", "6", "7", "8", "9"}

UpperLetters == {UPPER[i] : i \in 1..26}

LowerLetters == {LOWER[i] : i \in 1..26}

\* str.isspace() / regex \s on the characters the model uses
Whitespace == {" ", "\t", "\n", "\r"}

\* str.lower() of one character
LowerChar(c) ==
    IF c \in UpperLetters THEN LOWER[CHOOSE i \in 1..26 : UPPER[i] = c] ELSE c

\* str.lower()
lower(s) == [i \in 1..Len(s) |-> LowerChar(s[i])]

RECURSIVE lstrip(_)
\* str.lstrip()
lstrip(s) ==
    IF s # <<>> /\ Head(s) \in Whitespace THEN lstrip(Tail(s)) ELSE s

RECURSIVE rstrip(_)
\* str.rstrip()
rstrip(s) ==
    IF s # <<>> /\ s[Len(s)] \in Whitespace
    THEN rstrip(SubSeq(s, 1, Len(s) - 1))
    ELSE s

\* str.strip()
strip(s) == rstrip(lstrip(s))

RECURSIVE SplitFrom(_, _, _)
\* str.split() scanning from position i with the current word cur
SplitFrom(s, i, cur) ==
    IF i > Len(s)
    THEN IF cur = <<>> THEN <<>> ELSE <<cur>>
    ELSE IF s[i] \in Whitespace
         THEN IF cur = <<>>
              THEN SplitFrom(s, i + 1, <<>>)
              ELSE <<cur>> \o SplitFrom(s, i + 1, <<>>)
         ELSE SplitFrom(s, i + 1, Append(cur, s[i]))

\* str.split(): the whitespace-delimited tokens, in order
split(s) == SplitFrom(s, 1, <<>>)

\* sub occurs in s at position i
OccursAt(sub, s, i) ==
    /\ i + Len(sub) - 1 <= Len(s)
    /\ \A k \in 1..Len(sub) : s[i + k - 1] = sub[k]

\* Python's  sub in s
In(sub, s) == \E i \in 1..(Len(s) + 1) : OccursAt(sub, s, i)

\* any(pred(x) for x in seq) for a sequence of needles against one haystack
AnyIn(needles, s) == \E n \in 1..Len(needles) : In(needles[n], s)

\* --------------------------------------------------------- intent parsing

weather_keywords ==
    << <<"w", "e", "a", "t", "h", "e", "r">>, <<"t", "e", "m", "p", "e", "r", "a", "t", "u", "r", "e">>, <<"h", "o", "t">>, <<"c", "o", "l", "d">>, <<"r", "a", "i", "n">> >>

places_keywords ==
    << <<"v", "i", "s", "i", "t">>, <<"a", "t", "t", "r", "a", "c", "t", "i", "o", "n", "s">>, <<"p", "l", "a", "c", "e", "s", " ", "t", "o", " ", "v", "i", "s", "i", "t">>, <<"p", "l", "a", "c", "e", " ", "t", "o", " ", "v", "i", "s", "i", "t">>,
       <<"t", "o", "u", "r", "i", "s", "t">>, <<"s", "i", "g", "h", "t", "s", "e", "e", "i", "n", "g">>, <<"t", "h", "i", "n", "g", "s", " ", "t", "o", " ", "d", "o">> >>

\* The literal heads of the three patterns, in the order of the list
patterns == << <<"g", "o", "i", "n", "g", " ", "t", "o">>, <<"g", "o", " ", "t", "o">>, <<"i", "n">> >>

\* [.,!?] of the patterns
Terminators == {".", ",", "!", "?"}

\* [A-Za-z\s] of the patterns' group
InGroupClass(c) == c \in UpperLetters \/ c \in LowerLetters \/ c \in Whitespace

\* \w of the regex engine, for \b
IsWordChar(c) ==
    c \in UpperLetters \/ c \in LowerLetters \/ c \in Digits \/ c = "_"

\* $ without re.MULTILINE: the end of the string, or before a final newline
AtDollar(s, p) == p > Len(s) \/ (p = Len(s) /\ s[p] = "\n")

RECURSIVE GroupEnd(_, _, _)
\* ([A-Za-z\s]+?)(?:[.,!?]|$) with the group starting at g and s[g..p-1]
\* taken so far: the position after the shortest group, 0 when there is none
GroupEnd(s, g, p) ==
    IF p > g /\ (AtDollar(s, p) \/ s[p] \in Terminators)
    THEN p
    ELSE IF p <= Len(s) /\ InGroupClass(s[p])
         THEN GroupEnd(s, g, p + 1)
         ELSE 0

RECURSIVE WsRun(_, _)
\* number of whitespace characters of s from position j on
WsRun(s, j) ==
    IF j <= Len(s) /\ s[j] \in Whitespace THEN 1 + WsRun(s, j + 1) ELSE 0

RECURSIVE GroupAfterWs(_, _, _)
\* \s+ is greedy: it gives back one character at a time, down to one
GroupAfterWs(s, j, k) ==
    IF k < 1
    THEN None
    ELSE IF GroupEnd(s, j + k, j + k) # 0
         THEN Some(SubSeq(s, j + k, GroupEnd(s, j + k, j + k) - 1))
         ELSE GroupAfterWs(s, j, k - 1)

\* \b<cue>\s+(group)(?:[.,!?]|$) matched at position i, re.IGNORECASE
MatchAt(s, cue, i) ==
    IF /\ OccursAt(cue, lower(s), i)
       /\ (i = 1 \/ ~IsWordChar(s[i - 1]))
    THEN GroupAfterWs(s, i + Len(cue), WsRun(s, i + Len(cue)))
    ELSE None

RECURSIVE SearchFrom(_, _, _)
\* re.search: the match at the leftmost position that has one
SearchFrom(s, cue, i) ==
    IF i > Len(s)
    THEN None
    ELSE IF MatchAt(s, cue, i) # None
         THEN MatchAt(s, cue, i)
         ELSE SearchFrom(s, cue, i + 1)

\* re.search(p, text, flags=re.IGNORECASE) -> group(1), or None
re_search(cue, s) == SearchFrom(s, cue, 1)

RECURSIVE FirstPattern_nostrip(_, _)
\* FirstPattern returning m.group(1) as matched
FirstPattern_nostrip(s, n) ==
    IF n > Len(patterns)
    THEN None
    ELSE IF re_search(patterns[n], s) # None
         THEN re_search(patterns[n], s)
         ELSE FirstPattern_nostrip(s, n + 1)

RECURSIVE FirstPattern(_, _)
\* for p in patterns: m = re.search(...); if m: return m.group(1).strip()
FirstPattern(s, n) ==
    IF n > Len(patterns)
    THEN None
    ELSE IF re_search(patterns[n], s) # None
         THEN Some(strip(re_search(patterns[n], s)[1]))
         ELSE FirstPattern(s, n + 1)

\* caps without its filter
caps_all(tokens) == tokens

\* caps = [t for t in tokens if t and t[0].isupper()]
caps(tokens) == SelectSeq(tokens, LAMBDA t : t # <<>> /\ t[1] \in UpperLetters)

\* TourismParentAgent._extract_place_name
_extract_place_name(msg) ==
    LET text == strip(msg)
        tokens == split(text)
    IN  IF FirstPattern(text, 1) # None
        THEN FirstPattern(text, 1)
        ELSE IF caps(tokens) # <<>>
             THEN Some(caps(tokens)[Len(caps(tokens))])
             ELSE IF tokens # <<>> THEN Some(tokens[Len(tokens)]) ELSE None

\* _parse_intent without the default-both rule
_parse_intent_no_default(msg) ==
    [ place_query |-> _extract_place_name(msg),
      need_weather |-> AnyIn(weather_keywords, lower(msg)),
      need_places |-> AnyIn(places_keywords, lower(msg)) ]

\* TourismParentAgent._parse_intent
_parse_intent(msg) ==
    LET kw_weather == AnyIn(weather_keywords, lower(msg))
        kw_places == AnyIn(places_keywords, lower(msg))
        neither == ~(kw_weather \/ kw_places)
    IN  [ place_query |-> _extract_place_name(msg),
          need_weather |-> kw_weather \/ neither,
          need_places |-> kw_places \/ neither ]

\* ------------------------------------------------------------- data model

\* schemas.PlaceLocation; coordinates in hundredths of a degree
PlaceLocation(name, latitude, longitude) ==
    [name |-> name, latitude |-> latitude, longitude |-> longitude]

\* schemas.WeatherInfo; temperature_c in tenths of a degree,
\* is_raining an Optional[bool]
WeatherInfo(temperature_c, is_raining) ==
    [temperature_c |-> temperature_c, is_raining |-> is_raining]

\* schemas.TourismAgentResult, with the defaults of its optional fields
TourismAgentResult(reply, place, weather_, places_) ==
    [reply |-> reply, place |-> place, weather |-> weather_, places |-> places_]

\* ------------------------------------------------- provider HTTP responses

\* A JSON value as far as float() and truthiness tell values apart:
\* absent or null, a number (or numeric string), another string, an object.
JMissing == [t |-> "missing", v |-> 0]

JNum(n) == [t |-> "num", v |-> n]

JStr == [t |-> "str", v |-> 0]

\* float(x): the value, or the TypeError / ValueError it raises
float(j) ==
    CASE j.t = "num" -> [exc |-> "", v |-> j.v]
      [] j.t = "str" -> [exc |-> "ValueError", v |-> 0]
      [] OTHER -> [exc |-> "TypeError", v |-> 0]

\* What httpx does with the request: the three failures are subclasses of
\* httpx.HTTPError (TimeoutException, TransportError, HTTPStatusError raised
\* by raise_for_status); "ok" is a 2xx response with a body.
HttpOutcomes == {"ok", "timeout", "transport_error", "status_error"}

HttpFailures == HttpOutcomes \ {"ok"}

\* A Nominatim response.  json: what response.json() gives ("not_json": it
\* raises); first: data[0] ("none" for an empty list); address: the value
\* of first["address"]; city .. state: the entries of the address object.
NominatimOk ==
    [ http |-> "ok", json |-> "list", first |-> "object",
      lat |-> JNum(1549), lon |-> JNum(7383),
      display_name |-> <<"G", "o", "a", ",", " ", "I", "n", "d", "i", "a">>, address |-> "object",
      city |-> <<"G", "o", "a">>, town |-> <<>>, village |-> <<>>,
      municipality |-> <<>>, state |-> <<>> ]

NominatimResponses ==
    { [NominatimOk EXCEPT !.http = h] : h \in HttpFailures }
    \cup
    { NominatimOk,
      [NominatimOk EXCEPT !.json = "not_json"],
      [NominatimOk EXCEPT !.json = "object"],
      [NominatimOk EXCEPT !.first = "none"],
      [NominatimOk EXCEPT !.first = "not_object"],
      [NominatimOk EXCEPT !.lat = JMissing],
      [NominatimOk EXCEPT !.lon = JStr],
      [NominatimOk EXCEPT !.address = "not_object"],
      [NominatimOk EXCEPT !.city = <<>>, !.town = <<"O", "o", "t", "y">>,
                          !.state = <<"T", "a", "m", "i", "l", " ", "N", "a", "d", "u">>,
                          !.lat = JNum(1141), !.lon = JNum(7670),
                          !.display_name = <<"O", "o", "t", "y", ",", " ", "I", "n", "d", "i", "a">>],
      [NominatimOk EXCEPT !.address = "missing",
                          !.display_name = <<"N", "o", "r", "t", "h", " ", "G", "o", "a">>],
      [NominatimOk EXCEPT !.address = "missing", !.display_name = <<>>] }

\* x or y for strings
Or(x, y) == IF x # <<>> THEN x ELSE y

\* The outcome of a call: ret is what it returns when exc = "", and exc the
\* exception that leaves it otherwise; http tells whether the provider was
\* asked at all.
Returns(v, asked) == [exc |-> "", ret |-> v, http |-> asked]

Raises(e) == [exc |-> e, ret |-> None, http |-> TRUE]

\* geocode_place without the test for an empty result list
geocode_place_unchecked(query_, resp) ==
    LET query == strip(query_)
        display_name == Or(resp.display_name, query)
        city_name ==
            Or(resp.city, Or(resp.town, Or(resp.village,
               Or(resp.municipality, Or(resp.state, display_name)))))
    IN  IF query = <<>> THEN Returns(None, FALSE)
        ELSE IF resp.http # "ok" THEN Returns(None, TRUE)
        ELSE IF resp.json = "not_json" THEN Raises("JSONDecodeError")
        ELSE IF resp.json # "list" THEN Returns(None, TRUE)
        ELSE IF resp.first = "none" THEN Raises("IndexError")
        ELSE IF resp.first # "object" THEN Raises("AttributeError")
        ELSE IF float(resp.lat).exc # "" \/ float(resp.lon).exc # ""
             THEN Returns(None, TRUE)
        ELSE IF resp.address = "not_object" THEN Raises("AttributeError")
        ELSE Returns(
               Some(PlaceLocation(
                      IF resp.address = "object" THEN city_name
                      ELSE display_name,
                      float(resp.lat).v, float(resp.lon).v)),
               TRUE)

\* nominatim_client.geocode_place, given the provider's response
geocode_place(query_, resp) ==
    LET query == strip(query_)
        display_name == Or(resp.display_name, query)
        city_name ==
            Or(resp.city, Or(resp.town, Or(resp.village,
               Or(resp.municipality, Or(resp.state, display_name)))))
    IN  IF query = <<>> THEN Returns(None, FALSE)
        ELSE IF resp.http # "ok" THEN Returns(None, TRUE)
        ELSE IF resp.json = "not_json" THEN Raises("JSONDecodeError")
        ELSE IF resp.json # "list" \/ resp.first = "none"
             THEN Returns(None, TRUE)
        ELSE IF resp.first # "object" THEN Raises("AttributeError")
        ELSE IF float(resp.lat).exc # "" \/ float(resp.lon).exc # ""
             THEN Returns(None, TRUE)
        ELSE IF resp.address = "not_object" THEN Raises("AttributeError")
        ELSE Returns(
               Some(PlaceLocation(
                      IF resp.address = "object" THEN city_name
                      ELSE display_name,
                      float(resp.lat).v, float(resp.lon).v)),
               TRUE)

\* An Open-Meteo response.  current: data["current"]; temperature_2m in
\* tenths of a degree, precipitation in tenths of a millimetre.
OpenMeteoOk ==
    [ http |-> "ok", json |-> "object", current |-> "object",
      temperature_2m |-> JNum(244), precipitation |-> JNum(0) ]

OpenMeteoResponses ==
    { [OpenMeteoOk EXCEPT !.http = h] : h \in HttpFailures }
    \cup
    { OpenMeteoOk,
      [OpenMeteoOk EXCEPT !.json = "not_json"],
      [OpenMeteoOk EXCEPT !.json = "list"],
      [OpenMeteoOk EXCEPT !.current = "missing"],
      [OpenMeteoOk EXCEPT !.current = "not_object"],
      [OpenMeteoOk EXCEPT !.temperature_2m = JMissing],
      [OpenMeteoOk EXCEPT !.temperature_2m = JStr],
      [OpenMeteoOk EXCEPT !.temperature_2m = JNum(305),
                          !.precipitation = JNum(12)],
      [OpenMeteoOk EXCEPT !.precipitation = JMissing],
      [OpenMeteoOk EXCEPT !.precipitation = JStr] }

\* get_current_weather catching httpx.TimeoutException only
get_current_weather_timeout_only(latitude, longitude, resp) ==
    LET temperature_c == float(resp.temperature_2m)
        precipitation == float(resp.precipitation)
        is_raining ==
            IF resp.precipitation.t = "missing" \/ precipitation.exc # ""
            THEN None
            ELSE Some(precipitation.v > 0)
    IN  IF resp.http = "timeout" THEN Returns(None, TRUE)
        ELSE IF resp.http # "ok" THEN Raises("HTTPError")
        ELSE IF resp.json = "not_json" THEN Raises("JSONDecodeError")
        ELSE IF resp.json # "object" THEN Raises("AttributeError")
        ELSE IF resp.current # "object" THEN Returns(None, TRUE)
        ELSE IF temperature_c.exc # "" THEN Returns(None, TRUE)
        ELSE Returns(Some(WeatherInfo(temperature_c.v, is_raining)), TRUE)

\* open_meteo_client.get_current_weather, given the provider's response
get_current_weather(latitude, longitude, resp) ==
    LET temperature_c == float(resp.temperature_2m)
        precipitation == float(resp.precipitation)
        is_raining ==
            IF resp.precipitation.t = "missing" \/ precipitation.exc # ""
            THEN None
            ELSE Some(precipitation.v > 0)
    IN  IF resp.http # "ok" THEN Returns(None, TRUE)
        ELSE IF resp.json = "not_json" THEN Raises("JSONDecodeError")
        ELSE IF resp.json # "object" THEN Raises("AttributeError")
        ELSE IF resp.current # "object" THEN Returns(None, TRUE)
        ELSE IF temperature_c.exc # "" THEN Returns(None, TRUE)
        ELSE Returns(Some(WeatherInfo(temperature_c.v, is_raining)), TRUE)

\* weather_agent.WeatherAgent.get_weather_for_location
get_weather_for_location(loc, resp) ==
    get_current_weather(loc.latitude, loc.longitude, resp)


\* ------------------------------------------------------------ variables

VARIABLES
    pc,            \* where handle_message is: the call it is about to make
    message,       \* handle_message's message
    place_query,   \* Optional[str] of _parse_intent
    need_weather,
    need_places,
    location,      \* Optional[PlaceLocation]
    weather,       \* Optional[WeatherInfo]
    places,        \* List[str]
    result,        \* Optional[TourismAgentResult]: what handle_message returned
    calls,         \* the collaborator calls made so far, in order, each with
                   \* the response its provider gave (None: provider not asked)
    fault,         \* the exception that left handle_message, "" if none
    max_results,   \* get_places_for_location's max_results argument
    requests,      \* the locals of the handle_message coroutines in flight
    table          \* the module-level dict places_agent.FAMOUS_PLACES

vars == << pc, message, place_query, need_weather, need_places, location,
           weather, places, result, calls, fault, max_results, requests, table >>

\* What a single call of handle_message never touches
others == << max_results, requests, table >>
\* --------------------------------------------------------- places lookup

FAMOUS_PLACES ==
  <<
    [ city_key |-> <<"b", "a", "n", "g", "a", "l", "o", "r", "e">>,  \* line 15
      places |-> <<
         <<"Lalbagh Botanical Garden">>,
         <<"Cubbon Park">>,
         <<"Bangalore Palace">>,
         <<"Bannerghatta Biological Park">>,
         <<"Jawaharlal Nehru Planetarium">>,
         <<"ISKCON Temple">>,
         <<"Vidhana Soudha">> >> ],
    [ city_key |-> <<"b", "e", "n", "g", "a", "l", "u", "r", "u">>,  \* line 24
      places |-> <<
         <<"Lalbagh Botanical Garden">>,
         <<"Cubbon Park">>,
         <<"Bangalore Palace">>,
         <<"Bannerghatta Biological Park">>,
         <<"Jawaharlal Nehru Planetarium">>,
         <<"ISKCON Temple">>,
         <<"Vidhana Soudha">> >> ],
    [ city_key |-> <<"d", "e", "l", "h", "i">>,  \* line 35
      places |-> <<
         <<"Red Fort">>,
         <<"India Gate">>,
         <<"Qutub Minar">>,
         <<"Lotus Temple">>,
         <<"Akshardham Temple">>,
         <<"Humayun's Tomb">>,
         <<"Jama Masjid">> >> ],
    [ city_key |-> <<"n", "e", "w", " ", "d", "e", "l", "h", "i">>,  \* line 44
      places |-> <<
         <<"Red Fort">>,
         <<"India Gate">>,
         <<"Qutub Minar">>,
         <<"Lotus Temple">>,
         <<"Akshardham Temple">>,
         <<"Humayun's Tomb">>,
         <<"Jama Masjid">> >> ],
    [ city_key |-> <<"g", "o", "a">>,  \* line 55
      places |-> <<
         <<"Baga Beach">>,
         <<"Calangute Beach">>,
         <<"Fort Aguada">>,
         <<"Basilica of Bom Jesus">>,
         <<"Dudhsagar Falls">>,
         <<"Candolim Beach">>,
         <<"Anjuna Beach">> >> ],
    [ city_key |-> <<"m", "u", "m", "b", "a", "i">>,  \* line 66
      places |-> <<
         <<"Gateway of India">>,
         <<"Marine Drive">>,
         <<"Juhu Beach">>,
         <<"Siddhivinayak Temple">>,
         <<"Elephanta Caves">>,
         <<"Chhatrapati Shivaji Maharaj Terminus">>,
         <<"Haji Ali Dargah">> >> ],
    [ city_key |-> <<"h", "y", "d", "e", "r", "a", "b", "a", "d">>,  \* line 77
      places |-> <<
         <<"Charminar">>,
         <<"Golconda Fort">>,
         <<"Hussain Sagar Lake">>,
         <<"Ramoji Film City">>,
         <<"Salar Jung Museum">>,
         <<"Birla Mandir">> >> ],
    [ city_key |-> <<"c", "h", "e", "n", "n", "a", "i">>,  \* line 87
      places |-> <<
         <<"Marina Beach">>,
         <<"Kapaleeshwarar Temple">>,
         <<"Fort St. George">>,
         <<"Valluvar Kottam">>,
         <<"Santhome Basilica">> >> ]
  >>
\* The printable ASCII characters in code point order, from 32 on (the
\* grave accent, which a TLA+ string cannot hold, by its name)
ASCII ==
    <<" ", "!", "\"", "#", "$", "%", "&", "'", "(", ")", "*", "+", ",",
    "-", ".", "/", "0", "1", "2", "3", "4", "5", "6", "7", "8", "9", ":",
    ";", "<", "=", ">", "?", "@", "A", "B", "C", "D", "E", "F", "G", "H",
    "I", "J", "K", "L", "M", "N", "O", "P", "Q", "R", "S", "T", "U", "V",
    "W", "X", "Y", "Z", "[", "\\", "]", "^", "_", "GRAVE", "a", "b", "c", "d",
    "e", "f", "g", "h", "i", "j", "k", "l", "m", "n", "o", "p", "q", "r",
    "s", "t", "u", "v", "w", "x", "y", "z", "{", "|", "}", "~">>

\* Default of get_places_for_location's max_results parameter
max_results_default == 10

\* places[:n]
Take(s, n) == SubSeq(s, 1, IF Len(s) < n THEN Len(s) ELSE n)

RECURSIVE CuratedExact(_, _)
\* for city_key, places in FAMOUS_PLACES.items(): if city_key in loc_name
CuratedExact(loc_name, n) ==
    IF n > Len(table)
    THEN None
    ELSE IF In(table[n].city_key, loc_name)
         THEN Some(table[n].places)
         ELSE CuratedExact(loc_name, n + 1)

\* CuratedLoose looking for the whole key where the code looks for its words
CuratedLoose_whole_key(loc_name, n) == CuratedExact(loc_name, n)

RECURSIVE CuratedLoose(_, _)
\* ... if any(word in loc_name for word in city_key.split())
CuratedLoose(loc_name, n) ==
    IF n > Len(table)
    THEN None
    ELSE IF AnyIn(split(table[n].city_key), loc_name)
         THEN Some(table[n].places)
         ELSE CuratedLoose(loc_name, n + 1)

\* The curated list the two loops of get_places_for_location find, or None
Curated(loc) ==
    LET loc_name == lower(loc.name)
    IN  IF CuratedExact(loc_name, 1) # None
        THEN CuratedExact(loc_name, 1)
        ELSE CuratedLoose(loc_name, 1)

banned_substrings ==
    << <<"h", "o", "t", "e", "l">>, <<"h", "o", "s", "t", "e", "l">>, <<"g", "u", "e", "s", "t", " ", "h", "o", "u", "s", "e">>, <<"g", "u", "e", "s", "t", "h", "o", "u", "s", "e">>, <<"l", "o", "d", "g", "e">>, <<"p", "g">>,
       <<"b", "o", "y", "s", " ", "h", "o", "s", "t", "e", "l">>, <<"g", "i", "r", "l", "s", " ", "h", "o", "s", "t", "e", "l">>, <<"r", "e", "s", "i", "d", "e", "n", "c", "y">>, <<"r", "e", "s", "i", "d", "e", "n", "c", "e">>,
       <<"e", "n", "t", "e", "r", "p", "r", "i", "s", "e">>, <<"e", "n", "t", "e", "r", "p", "r", "i", "s", "e", "s">>, <<"h", "a", "l", "l">>, <<"m", "a", "h", "a", "l">>, <<"m", "a", "r", "r", "i", "a", "g", "e">> >>

\* ord(c)
Ord(c) == 31 + (CHOOSE i \in 1..Len(ASCII) : ASCII[i] = c)

RECURSIVE StrLess(_, _)
\* a < b for Python strings
StrLess(a, b) ==
    IF b = <<>> THEN FALSE
    ELSE IF a = <<>> THEN TRUE
    ELSE IF Head(a) # Head(b) THEN Ord(Head(a)) < Ord(Head(b))
    ELSE StrLess(Tail(a), Tail(b))

RECURSIVE Insert(_, _)
Insert(x, sorted_) ==
    IF sorted_ = <<>> THEN <<x>>
    ELSE IF StrLess(x, Head(sorted_)) THEN <<x>> \o sorted_
    ELSE <<Head(sorted_)>> \o Insert(x, Tail(sorted_))

\* names left in the order the provider gave them
sort_unsorted(s) == s

RECURSIVE sort(_)
\* list.sort() (stable; equal strings are indistinguishable)
sort(s) == IF s = <<>> THEN <<>> ELSE Insert(s[Len(s)], sort(SubSeq(s, 1, Len(s) - 1)))

\* An element of the Overpass response: el is the element itself, tags the
\* value of el["tags"], name the value of tags["name"] (a string s when
\* name.t = "str").
Element(s) ==
    [el |-> "object", tags |-> "object", name |-> [t |-> "str", s |-> s]]

NoName == [t |-> "missing", s |-> <<>>]

\* An Overpass response.  elements_t: the value of data["elements"]
\* ("missing": the key is absent, "null": it is not a list).
OverpassOk ==
    [ http |-> "ok", json |-> "object", elements_t |-> "list",
      elements |-> << Element(<<"T", "e", "a", " ", "M", "u", "s", "e", "u", "m">>), Element(<<"G", "r", "a", "n", "d", " ", "H", "o", "t", "e", "l">>),
                      Element(<<"B", "o", "t", "a", "n", "i", "c", "a", "l", " ", "G", "a", "r", "d", "e", "n">>), Element(<<"T", "e", "a", " ", "M", "u", "s", "e", "u", "m">>) >> ]

OverpassResponses ==
    { [OverpassOk EXCEPT !.http = h] : h \in HttpFailures }
    \cup
    { OverpassOk,
      [OverpassOk EXCEPT !.json = "not_json"],
      [OverpassOk EXCEPT !.json = "list"],
      [OverpassOk EXCEPT !.elements_t = "missing", !.elements = <<>>],
      [OverpassOk EXCEPT !.elements_t = "null", !.elements = <<>>],
      [OverpassOk EXCEPT !.elements = <<>>],
      [OverpassOk EXCEPT !.elements =
          << [Element(<<>>) EXCEPT !.el = "not_object"] >>],
      [OverpassOk EXCEPT !.elements =
          << Element(<<"L", "a", "k", "e">>), [Element(<<>>) EXCEPT !.tags = "not_object"] >>],
      [OverpassOk EXCEPT !.elements =
          << [Element(<<>>) EXCEPT !.name = [t |-> "num", s |-> <<>>]] >>],
      [OverpassOk EXCEPT !.elements =
          << [Element(<<>>) EXCEPT !.tags = "missing"],
             [Element(<<>>) EXCEPT !.name = NoName],
             Element(<<>>), Element(<<"P", "G", " ", "S", "t", "a", "y">>), Element(<<"L", "a", "k", "e">>) >>] }

RECURSIVE FilterElements(_, _, _)
\* The loop over elements of get_places_for_location: names so far, or the
\* exception an element of the wrong shape raises
FilterElements(elements, i, names) ==
    IF i > Len(elements)
    THEN [exc |-> "", names |-> names]
    ELSE LET e == elements[i]
             name == e.name.s
             skip == FilterElements(elements, i + 1, names)
         IN  IF e.el # "object" THEN [exc |-> "AttributeError", names |-> <<>>]
             ELSE IF e.tags = "missing" THEN skip
             ELSE IF e.tags # "object"
                  THEN [exc |-> "AttributeError", names |-> <<>>]
             ELSE IF e.name.t = "missing" THEN skip
             ELSE IF e.name.t # "str"
                  THEN [exc |-> "AttributeError", names |-> <<>>]
             ELSE IF name = <<>> THEN skip
             ELSE IF AnyIn(banned_substrings, lower(name)) THEN skip
             ELSE IF \E k \in 1..Len(names) : names[k] = name THEN skip
             ELSE FilterElements(elements, i + 1, Append(names, name))

\* The Overpass fallback of get_places_for_location
overpass_fallback(loc, max_results_, resp) ==
    LET filtered == FilterElements(resp.elements, 1, <<>>)
    IN  IF resp.http # "ok" THEN Returns(<<>>, TRUE)
        ELSE IF resp.json = "not_json" THEN Raises("JSONDecodeError")
        ELSE IF resp.json # "object" THEN Raises("AttributeError")
        ELSE IF resp.elements_t = "missing" THEN Returns(<<>>, TRUE)
        ELSE IF resp.elements_t # "list" THEN Raises("TypeError")
        ELSE IF filtered.exc # "" THEN Raises(filtered.exc)
        ELSE Returns(Take(sort(filtered.names), max_results_), TRUE)

\* places_agent.PlacesAgent.get_places_for_location
get_places_for_location(loc, max_results_, resp) ==
    IF Curated(loc) # None
    THEN Returns(Take(Curated(loc)[1], max_results_), FALSE)
    ELSE overpass_fallback(loc, max_results_, resp)

\* -------------------------------------------------------- reply composer

\* The two characters of the replies outside ASCII, by code point: the
\* degree sign and the right single quotation mark
DEGREE == "[U+00B0]"

RSQUO == "[U+2019]"

DIGITS == <<"0", "1", "2", "3", "4", "5", "6", "7", "8", "9">>

RECURSIVE DecimalDigits(_)
\* the decimal digits of a natural number
DecimalDigits(n) ==
    IF n < 10
    THEN <<DIGITS[n + 1]>>
    ELSE DecimalDigits(n \div 10) \o <<DIGITS[(n % 10) + 1]>>

\* f"{x:.0f}" for x = tenths / 10: correctly rounded, ties to even (every
\* tie n + 0.5 is an exact double), the sign of x kept even when the digits
\* are 0
format_0f(tenths) ==
    LET mag == IF tenths < 0 THEN -tenths ELSE tenths
        q == mag \div 10
        r == mag % 10
        rounded == IF r < 5 THEN q
                   ELSE IF r > 5 THEN q + 1
                   ELSE IF q % 2 = 0 THEN q ELSE q + 1
    IN  (IF tenths < 0 THEN <<"-">> ELSE <<>>) \o DecimalDigits(rounded)

RECURSIVE join(_, _)
\* sep.join(lines)
join(sep, lines) ==
    IF lines = <<>> THEN <<>>
    ELSE IF Len(lines) = 1 THEN lines[1]
    ELSE lines[1] \o sep \o join(sep, Tail(lines))

\* weather_line without .strip()
weather_line_nostrip(city, w) ==
    LET rain_part ==
            IF w.is_raining = Some(TRUE)
            THEN <<"and it is currently raining.">>
            ELSE IF w.is_raining = Some(FALSE)
                 THEN <<"and it is not raining right now.">>
                 ELSE <<>>
    IN  <<"In ">> \o city \o <<" it's currently ">>
        \o format_0f(w.temperature_c) \o <<DEGREE, "C", " ">> \o rain_part

\* The weather line of _compose_reply
weather_line(city, w) ==
    LET rain_part ==
            IF w.is_raining = Some(TRUE)
            THEN <<"and it is currently raining.">>
            ELSE IF w.is_raining = Some(FALSE)
                 THEN <<"and it is not raining right now.">>
                 ELSE <<>>
    IN  strip(<<"In ">> \o city \o <<" it's currently ">>
              \o format_0f(w.temperature_c) \o <<DEGREE, "C", " ">> \o rain_part)

\* places_lines with the places-only header whatever was emitted before
places_lines_one_header(city, weather_emitted, places_) ==
    << <<"In ">> \o city \o <<" these are the places you can go: - - - - -">> >>
    \o (IF places_ # <<>>
        THEN places_
        ELSE << <<"I couldn't find clear tourist attractions nearby.">> >>)

\* The header and the list of the places branch of _compose_reply
places_lines(city, weather_emitted, places_) ==
    << IF weather_emitted
       THEN <<"And these are the places you can go: - - - - -">>
       ELSE <<"In ">> \o city \o <<" these are the places you can go: - - - - -">> >>
    \o (IF places_ # <<>>
        THEN places_
        ELSE << <<"I couldn't find clear tourist attractions nearby.">> >>)

\* The line of _compose_reply when no branch emitted one
generic_line(city) ==
    <<"You asked about ">> \o city
    \o <<", but I couldn't determine whether you want weather info, places to visit, or both. Please ask again with more details.">>

\* a composer that quotes the message it was asked with
_compose_reply_quoting(original_message, loc, weather_, places_, need_weather_, need_places_) ==
    original_message \o <<"\n">> \o generic_line(loc.name)

\* TourismParentAgent._compose_reply
_compose_reply(original_message, loc, weather_, places_, need_weather_, need_places_) ==
    LET city == loc.name
        weather_emitted == need_weather_ /\ weather_ # None
        lines ==
            (IF weather_emitted THEN <<weather_line(city, weather_[1])>> ELSE <<>>)
            \o (IF need_places_
                THEN places_lines(city, weather_emitted, places_)
                ELSE <<>>)
    IN  join(<<"\n">>, IF lines = <<>> THEN <<generic_line(city)>> ELSE lines)

\* The fixed replies of handle_message's early returns
EMPTY_MESSAGE_REPLY ==
    <<"Please tell me where you're going and whether you want weather details, places to visit, or both.">>

NO_PLACE_REPLY ==
    <<"I couldn't identify the place. Please mention the city name clearly, for example: 'I'm going to Bangalore'.">>

UNKNOWN_PLACE_REPLY ==
    <<"It doesn", RSQUO, "t know this place exists. Please check the spelling or try another location.">>

\* ------------------------------------------------------------------ inputs

\* The words the texts are made of: the three cues in two spellings of case,
\* sentence punctuation, whitespace, a capitalised and a hyphenated place
\* name, a weather keyword and a place-visiting keyword.
Vocabulary ==
    { <<" ">>, <<"g", "o", "i", "n", "g", " ", "t", "o", " ">>, <<"G", "o", " ", "t", "o", " ">>, <<"i", "n", " ">>, <<".">>, <<",">>, <<"?">>,
      <<"G", "o", "a">>, <<"K", "-", "2">>, <<"h", "o", "t">>, <<"V", "I", "S", "I", "T">> }

\* The words the messages of handle_message are made of
MsgVocabulary ==
    { <<" ">>, <<"g", "o", "i", "n", "g", " ", "t", "o", " ", " ">>, <<".">>, <<"G", "o", "a">>, <<"h", "o", "t", " ">>, <<"V", "I", "S", "I", "T", " ">> }

RECURSIVE TextsOf(_, _)
\* every concatenation of at most n words of vocab
TextsOf(vocab, n) ==
    IF n = 0
    THEN {<<>>}
    ELSE TextsOf(vocab, n - 1)
         \cup {t \o w : t \in TextsOf(vocab, n - 1), w \in vocab}

Texts == TextsOf(Vocabulary, MaxTokens)

Messages == TextsOf(MsgVocabulary, MaxMsgTokens)

\* ------------------------------------------------------------------- state

\* Local state before handle_message has assigned it
Unassigned ==
    /\ place_query = None
    /\ need_weather = FALSE
    /\ need_places = FALSE
    /\ location = None
    /\ weather = None
    /\ places = <<>>
    /\ result = None
    /\ calls = <<>>
    /\ fault = ""
    /\ max_results = max_results_default
    /\ requests = <<>>
    /\ table = FAMOUS_PLACES

\* A request arrives at chat_endpoint with any message
Init ==
    /\ pc = "start"
    /\ message \in Messages
    /\ Unassigned

\* One collaborator call and what its provider answered
Call(fn, out, resp) == [fn |-> fn, resp |-> IF out.http THEN Some(resp) ELSE None]

not_is_none(opt) == opt = None

\* Python's  not place_query  for an Optional[str]
not_(opt) == opt = None \/ opt = Some(<<>>)

\* return TourismAgentResult(reply=...) of the early returns
ReturnReply(reply) ==
    /\ pc' = "done"
    /\ result' = Some(TourismAgentResult(reply, None, None, <<>>))

\* An exception leaves handle_message
Raise(exc) ==
    /\ pc' = "raised"
    /\ fault' = exc

\* the weather call made whatever need_weather is
AfterResolve_always_weather == "weather"

\* The call handle_message makes next once it has a location
AfterResolve == IF need_weather THEN "weather"
                ELSE IF need_places THEN "places" ELSE "compose"

AfterWeather == IF need_places THEN "places" ELSE "compose"

\* handle_message up to the call of geocode_place
Start ==
    /\ pc = "start"
    /\ LET msg == strip(message)
           intent == _parse_intent(msg)
       IN  /\ message' = msg
           /\ IF msg = <<>>
              THEN /\ ReturnReply(EMPTY_MESSAGE_REPLY)
                   /\ UNCHANGED << place_query, need_weather, need_places >>
              ELSE /\ place_query' = intent.place_query
                   /\ need_weather' = intent.need_weather
                   /\ need_places' = intent.need_places
                   /\ IF not_(intent.place_query)
                      THEN ReturnReply(NO_PLACE_REPLY)
                      ELSE pc' = "geocode" /\ UNCHANGED result
    /\ UNCHANGED << location, weather, places, calls, fault >>
    /\ UNCHANGED others

\* location = await geocode_place(place_query), to the next call
Geocode(resp) ==
    /\ pc = "geocode"
    /\ LET out == geocode_place(place_query[1], resp)
       IN  /\ calls' = Append(calls, Call("geocode_place", out, resp))
           /\ IF out.exc # ""
              THEN Raise(out.exc) /\ UNCHANGED << location, result >>
              ELSE IF out.ret = None
                   THEN /\ ReturnReply(UNKNOWN_PLACE_REPLY)
                        /\ UNCHANGED << location, fault >>
                   ELSE /\ location' = out.ret
                        /\ pc' = AfterResolve
                        /\ UNCHANGED << result, fault >>
    /\ UNCHANGED << message, place_query, need_weather, need_places, weather, places >>
    /\ UNCHANGED others

\* weather = await self.weather_agent.get_weather_for_location(location)
Weather(resp) ==
    /\ pc = "weather"
    /\ LET out == get_weather_for_location(location[1], resp)
       IN  /\ calls' = Append(calls, Call("get_weather_for_location", out, resp))
           /\ IF out.exc # ""
              THEN Raise(out.exc) /\ UNCHANGED weather
              ELSE /\ weather' = out.ret
                   /\ pc' = AfterWeather
                   /\ UNCHANGED fault
    /\ UNCHANGED << message, place_query, need_weather, need_places, location,
                    places, result >>
    /\ UNCHANGED others

\* places = await self.places_agent.get_places_for_location(location)
Places(resp) ==
    /\ pc = "places"
    /\ LET out == get_places_for_location(location[1], max_results_default, resp)
       IN  /\ calls' = Append(calls, Call("get_places_for_location", out, resp))
           /\ IF out.exc # ""
              THEN Raise(out.exc) /\ UNCHANGED places
              ELSE /\ places' = out.ret
                   /\ pc' = "compose"
                   /\ UNCHANGED fault
    /\ UNCHANGED << message, place_query, need_weather, need_places, location,
                    weather, result >>
    /\ UNCHANGED others

\* reply_text = await self._compose_reply(...); return TourismAgentResult(...)
Compose ==
    /\ pc = "compose"
    /\ pc' = "done"
    /\ result' = Some(TourismAgentResult(
                        _compose_reply(message, location[1], weather, places,
                                       need_weather, need_places),
                        location, weather, places))
    /\ UNCHANGED << message, place_query, need_weather, need_places, location,
                    weather, places, calls, fault >>
    /\ UNCHANGED others

Next ==
    \/ Start
    \/ \E resp \in NominatimResponses : Geocode(resp)
    \/ \E resp \in OpenMeteoResponses : Weather(resp)
    \/ \E resp \in OverpassResponses : Places(resp)
    \/ Compose

\* One request through handle_message, for every message and every response
\* of the three providers
Spec == Init /\ [][Next]_vars

\* Number of words of the messages of the requests followed to their end
MaxFairTokens == 1

\* Words that give every path through handle_message: blank, a cue with an
\* empty phrase, a place alone, with a weather keyword, with a places keyword
FairVocabulary == { <<" ">>, <<"g", "o", "i", "n", "g", " ", "t", "o", " ", " ", ".">>, <<"G", "o", "a">>, <<"h", "o", "t", " ">>, <<"V", "I", "S", "I", "T", " ">> }

InitFair ==
    /\ pc = "start"
    /\ message \in TextsOf(FairVocabulary, MaxFairTokens)
    /\ Unassigned

\* One request, with the event loop running the coroutine on: every awaited
\* call ends (each httpx client has a timeout) and handle_message resumes
SpecFair == InitFair /\ [][Next]_vars /\ WF_vars(Next)

\* ------------------------------------------- the intent parser on its own

\* _parse_intent is handed any text
InitIntent ==
    /\ pc = "intent"
    /\ message \in Texts
    /\ Unassigned

\* place_query, need_weather, need_places = self._parse_intent(message)
ParseIntent ==
    /\ pc = "intent"
    /\ pc' = "parsed"
    /\ place_query' = _parse_intent(message).place_query
    /\ need_weather' = _parse_intent(message).need_weather
    /\ need_places' = _parse_intent(message).need_places
    /\ UNCHANGED << message, location, weather, places, result, calls, fault >>
    /\ UNCHANGED others

NextIntent == ParseIntent

SpecIntent == InitIntent /\ [][NextIntent]_vars

\* ------------------------------------------ the reply composer on its own

\* Number of entries of a place list given to _compose_reply
MaxPlaces == 2

\* temperature_c values, in tenths of a degree: both signs, ties, values
\* that round to zero, and more than one digit
Temperatures == {-155, -15, -5, -4, 0, 4, 5, 15, 25, 244, 245, 255, 996}

WeatherInfos ==
    { WeatherInfo(t, r) : t \in Temperatures,
                          r \in {None, Some(TRUE), Some(FALSE)} }

Locations ==
    { PlaceLocation(<<"G", "o", "a">>, 1549, 7383), PlaceLocation(<<"O", "o", "t", "y">>, 1141, 7670) }

PlaceNames == { <<"Baga Beach">>, <<"L", "a", "k", "e">>, <<"T", "e", "a", " ", "M", "u", "s", "e", "u", "m">> }

RECURSIVE ListsOf(_, _)
\* every list of at most n of the names
ListsOf(names, n) ==
    IF n = 0
    THEN {<<>>}
    ELSE ListsOf(names, n - 1)
         \cup {Append(l, x) : l \in ListsOf(names, n - 1), x \in names}

\* _compose_reply is handed any location, weather, places and flags
InitCompose ==
    /\ pc = "compose"
    /\ message \in { <<"G", "o", "a">>, <<"h", "o", "t", " ", "i", "n", " ", "O", "o", "t", "y">> }
    /\ place_query = None
    /\ need_weather \in BOOLEAN
    /\ need_places \in BOOLEAN
    /\ location \in { Some(l) : l \in Locations }
    /\ weather \in {None} \cup { Some(w) : w \in WeatherInfos }
    /\ places \in ListsOf(PlaceNames, MaxPlaces)
    /\ result = None
    /\ calls = <<>>
    /\ fault = ""
    /\ max_results = max_results_default
    /\ requests = <<>>
    /\ table = FAMOUS_PLACES

NextCompose == Compose

SpecCompose == InitCompose /\ [][NextCompose]_vars


\* -------------------------------------------- the place lookup on its own

\* Largest max_results below its default that the lookup is called with
MaxResults == 3

\* Location names: each curated key in some spelling of case, names that
\* only a word of a key matches, names no key matches, the empty name
LookupNames ==
    { <<"B", "a", "n", "g", "a", "l", "o", "r", "e">>, <<"B", "e", "n", "g", "a", "l", "u", "r", "u", " ", "U", "r", "b", "a", "n">>, <<"D", "e", "l", "h", "i">>, <<"N", "e", "w", " ", "Y", "o", "r", "k">>, <<"N", "e", "w", " ", "G", "o", "a">>,
      <<"G", "o", "a">>, <<"G", "O", "A">>, <<"S", "o", "u", "t", "h", " ", "M", "u", "m", "b", "a", "i">>, <<"H", "y", "d", "e", "r", "a", "b", "a", "d">>, <<"C", "h", "e", "n", "n", "a", "i">>, <<"O", "o", "t", "y">>,
      <<"N", "e", "w", "a", "r", "k">>, <<>> }

LookupLocations == { PlaceLocation(n, 1141, 7670) : n \in LookupNames }

\* An Overpass answer with more names than the default max_results: in
\* neither order, one twice, two of them denylisted, upper and lower case
OverpassMany ==
    [OverpassOk EXCEPT !.elements =
        << Element(<<"k">>), Element(<<"b">>), Element(<<"Z", "o", "o">>), Element(<<"j">>),
           Element(<<"a">>), Element(<<"T", "o", "w", "n", " ", "H", "a", "l", "l">>), Element(<<"i">>), Element(<<"c">>),
           Element(<<"h">>), Element(<<"b">>), Element(<<"d">>), Element(<<"g">>),
           Element(<<"e">>), Element(<<"P", "G">>), Element(<<"f">>) >>]

LookupResponses == OverpassResponses \cup {OverpassMany}

\* get_places_for_location is handed any location and any max_results
InitPlaces ==
    /\ pc = "places"
    /\ message = <<>>
    /\ place_query = None
    /\ need_weather = FALSE
    /\ need_places = TRUE
    /\ location \in { Some(l) : l \in LookupLocations }
    /\ weather = None
    /\ places = <<>>
    /\ result = None
    /\ calls = <<>>
    /\ fault = ""
    /\ max_results \in (1..MaxResults) \cup {max_results_default}
    /\ requests = <<>>
    /\ table = FAMOUS_PLACES

\* places = await get_places_for_location(location, max_results=max_results)
Lookup(resp) ==
    /\ pc = "places"
    /\ LET out == get_places_for_location(location[1], max_results, resp)
       IN  /\ calls' = Append(calls, Call("get_places_for_location", out, resp))
           /\ IF out.exc # ""
              THEN Raise(out.exc) /\ UNCHANGED places
              ELSE /\ places' = out.ret
                   /\ pc' = "looked"
                   /\ UNCHANGED fault
    /\ UNCHANGED << message, place_query, need_weather, need_places, location,
                    weather, result >>
    /\ UNCHANGED others

NextPlaces == \E resp \in LookupResponses : Lookup(resp)

SpecPlaces == InitPlaces /\ [][NextPlaces]_vars

\* ------------------------ concurrent requests on the shared parent_agent

\* Number of requests in flight on the one event loop
MaxRequests == 2

\* Messages of the concurrent requests: blank, a place alone (weather and
\* places), a weather keyword alone (weather only)
ConcurrentMessages == { <<" ">>, <<"G", "o", "a">>, <<"h", "o", "t", " ">> }

\* What the providers answer a concurrent request: a place of the curated
\* table, a place outside it, a failed request, a body that is not JSON
ConcurrentNominatim ==
    { NominatimOk,
      [NominatimOk EXCEPT !.city = <<>>, !.town = <<"O", "o", "t", "y">>,
                          !.state = <<"T", "a", "m", "i", "l", " ", "N", "a", "d", "u">>,
                          !.lat = JNum(1141), !.lon = JNum(7670),
                          !.display_name = <<"O", "o", "t", "y", ",", " ", "I", "n", "d", "i", "a">>],
      [NominatimOk EXCEPT !.http = "timeout"] }

ConcurrentOpenMeteo == { OpenMeteoOk, [OpenMeteoOk EXCEPT !.http = "timeout"] }

ConcurrentOverpass == { OverpassOk, [OverpassOk EXCEPT !.json = "not_json"] }

\* the frame saved without the weather local
Frame_without_weather ==
    [ pc |-> pc, message |-> message, place_query |-> place_query,
      need_weather |-> need_weather, need_places |-> need_places,
      location |-> location, weather |-> None, places |-> places,
      result |-> result, calls |-> calls, fault |-> fault ]

\* The locals of the handle_message coroutine that is running
Frame ==
    [ pc |-> pc, message |-> message, place_query |-> place_query,
      need_weather |-> need_weather, need_places |-> need_places,
      location |-> location, weather |-> weather, places |-> places,
      result |-> result, calls |-> calls, fault |-> fault ]

\* The frame of a handle_message coroutine that has not run yet
NewFrame(msg) ==
    [ pc |-> "start", message |-> msg, place_query |-> None,
      need_weather |-> FALSE, need_places |-> FALSE,
      location |-> None, weather |-> None, places |-> <<>>,
      result |-> None, calls |-> <<>>, fault |-> "" ]

\* What the event loop holds for the running coroutine: its frame is the
\* live locals, not a saved copy
Live == [pc |-> "running"]

\* The locals are those of frame f
Running(f) ==
    /\ pc = f.pc
    /\ message = f.message
    /\ place_query = f.place_query
    /\ need_weather = f.need_weather
    /\ need_places = f.need_places
    /\ location = f.location
    /\ weather = f.weather
    /\ places = f.places
    /\ result = f.result
    /\ calls = f.calls
    /\ fault = f.fault

\* chat_endpoint has awaited parent_agent.handle_message for every request
\* in flight; the loop runs the first
InitConcurrent ==
    /\ \E f \in [1..MaxRequests -> { NewFrame(m) : m \in ConcurrentMessages }] :
         /\ requests = [running |-> 1, frames |-> [f EXCEPT ![1] = Live]]
         /\ Running(f[1])
    /\ max_results = max_results_default
    /\ table = FAMOUS_PLACES

\* The running coroutine is at an await that yields to the event loop (a
\* collaborator's HTTP request), has not run yet, or has ended
AtAwait == pc \in {"start", "geocode", "weather", "places", "done", "raised"}

\* The event loop suspends the running coroutine and resumes request r
Switch(r) ==
    /\ AtAwait
    /\ r # requests.running
    /\ requests' = [ running |-> r,
                     frames |-> [requests.frames EXCEPT ![requests.running] = Frame,
                                                        ![r] = Live] ]
    /\ pc' = requests.frames[r].pc
    /\ message' = requests.frames[r].message
    /\ place_query' = requests.frames[r].place_query
    /\ need_weather' = requests.frames[r].need_weather
    /\ need_places' = requests.frames[r].need_places
    /\ location' = requests.frames[r].location
    /\ weather' = requests.frames[r].weather
    /\ places' = requests.frames[r].places
    /\ result' = requests.frames[r].result
    /\ calls' = requests.frames[r].calls
    /\ fault' = requests.frames[r].fault
    /\ UNCHANGED << max_results, table >>

NextConcurrent ==
    \/ Start
    \/ \E resp \in ConcurrentNominatim : Geocode(resp)
    \/ \E resp \in ConcurrentOpenMeteo : Weather(resp)
    \/ \E resp \in ConcurrentOverpass : Places(resp)
    \/ Compose
    \/ \E r \in 1..MaxRequests : Switch(r)

\* Requests handled concurrently by the shared TourismParentAgent, switched
\* at every await on a collaborator call
SpecConcurrent == InitConcurrent /\ [][NextConcurrent]_vars

\* --------------------------------------------- the reply composer, twice

\* await self._compose_reply(...) once more, with what the first call was
\* given
ComposeAgain ==
    /\ pc = "done"
    /\ pc' = "again"
    /\ result' = Some(TourismAgentResult(
                        _compose_reply(message, location[1], weather, places,
                                       need_weather, need_places),
                        location, weather, places))
    /\ UNCHANGED << message, place_query, need_weather, need_places, location,
                    weather, places, calls, fault >>
    /\ UNCHANGED others

NextComposeTwice ==
    \/ Compose
    \/ ComposeAgain

SpecComposeTwice == InitCompose /\ [][NextComposeTwice]_vars
\* ================================================================== claims

RECURSIVE Flat(_)
\* A text as one string
Flat(s) == IF s = <<>> THEN "" ELSE Head(s) \o Flat(Tail(s))

RECURSIVE LinesFrom(_, _, _)
LinesFrom(s, i, cur) ==
    IF i > Len(s)
    THEN <<cur>>
    ELSE IF s[i] = "\n"
         THEN <<cur>> \o LinesFrom(s, i + 1, <<>>)
         ELSE LinesFrom(s, i + 1, Append(cur, s[i]))

\* The lines of a reply: what lies between its newlines, empty lines kept
LinesOf(s) == LinesFrom(s, 1, <<>>)

\* The provider of call c was asked and the request failed: timeout,
\* transport error or non-2xx status
HttpFailed(c) == c.resp # None /\ c.resp[1].http \in HttpFailures

\* The provider of call c was asked and answered 2xx
HttpOk(c) == c.resp # None /\ c.resp[1].http = "ok"

\* The step is a collaborator call of handle_message
CallStep == calls' # calls

LastCall == calls[Len(calls)]

\* ---- C1
\* C1: once the resolver has returned a location, a weather call whose
\* request times out, fails in transport or gets a non-2xx status leaves
\* weather null, raises nothing and is followed by the Place Lookup call
\* when need_places is true (the call made at "places" is
\* get_places_for_location); a Place Lookup whose POI request fails in one
\* of these ways leaves places empty, keeps the weather obtained before and
\* raises nothing; and the compose step that follows returns an
\* AgentResult made of the location, weather and places gathered.
C1_Step ==
    /\ (pc = "weather" /\ CallStep /\ HttpFailed(LastCall'))
          => /\ weather' = None
             /\ fault' = ""
             /\ pc' = IF need_places THEN "places" ELSE "compose"
    /\ (pc = "places" /\ CallStep)
          => LastCall'.fn = "get_places_for_location"
    /\ (pc = "places" /\ CallStep /\ HttpFailed(LastCall'))
          => /\ places' = <<>>
             /\ weather' = weather
             /\ fault' = ""
             /\ pc' = "compose"
    /\ (pc = "compose" /\ pc' # pc)
          => /\ pc' = "done"
             /\ fault' = ""
             /\ result' # None
             /\ result'[1].place = location
             /\ result'[1].weather = weather
             /\ result'[1].places = places
             /\ result'[1].reply # <<>>

C1_FanOutDegrades == [][C1_Step]_vars

\* Both facets requested, the weather request timed out, the POI request
\* got a non-2xx status, and handle_message returned
C1_Witness ==
    /\ pc = "done"
    /\ Len(calls) = 3
    /\ need_weather /\ need_places
    /\ calls[2].fn = "get_weather_for_location" /\ HttpFailed(calls[2])
    /\ calls[2].resp[1].http = "timeout"
    /\ calls[3].fn = "get_places_for_location" /\ HttpFailed(calls[3])
    /\ calls[3].resp[1].http = "status_error"
    /\ result # None
    /\ result[1].weather = None
    /\ result[1].places = <<>>
    /\ result[1].place = location

\* ---- C2
\* A 2xx response whose body is not parseable or has not the expected shape
Malformed(c) ==
    /\ HttpOk(c)
    /\ LET r == c.resp[1]
       IN  CASE c.fn = "geocode_place" ->
                   \/ r.json # "list"
                   \/ r.first = "not_object"
                   \/ r.lat.t # "num" \/ r.lon.t # "num"
                   \/ r.address = "not_object"
             [] c.fn = "get_weather_for_location" ->
                   \/ r.json # "object"
                   \/ r.current # "object"
                   \/ r.temperature_2m.t # "num"
             [] c.fn = "get_places_for_location" ->
                   \/ r.json # "object"
                   \/ r.elements_t = "null"
                   \/ \E k \in 1..Len(r.elements) :
                         \/ r.elements[k].el # "object"
                         \/ r.elements[k].tags = "not_object"
                         \/ r.elements[k].name.t = "num"

\* C2: a malformed response of the geocoding, weather or POI provider is
\* degradation (no location, null weather, empty place list) and never an
\* exception leaving handle_message.
C2_MalformedIsDegradation ==
    \A i \in 1..Len(calls) :
        Malformed(calls[i]) =>
            /\ ~(i = Len(calls) /\ pc = "raised")
            /\ calls[i].fn = "geocode_place" => location = None
            /\ calls[i].fn = "get_weather_for_location" => weather = None
            /\ calls[i].fn = "get_places_for_location" => places = <<>>

\* ---- C3
\* The geocoding provider found no match, or the request failed
NoMatchOrError(r) ==
    \/ r.http \in HttpFailures
    \/ r.http = "ok" /\ r.json = "list" /\ r.first = "none"

\* C3: when the resolver yields no location (always so when the provider
\* finds no match or the request fails), handle_message returns the fixed
\* "unknown place" reply with place null, weather null and places empty,
\* and geocode_place is the only collaborator called, whatever the flags.
C3_UnknownPlace ==
    (calls # <<>> /\ calls[1].resp # None) =>
        /\ calls[1].fn = "geocode_place"
        /\ NoMatchOrError(calls[1].resp[1]) => (location = None /\ pc = "done")
        /\ (location = None /\ pc # "raised") =>
              /\ pc = "done"
              /\ Len(calls) = 1
              /\ result # None
              /\ Flat(result[1].reply) = "It doesn[U+2019]t know this place exists. Please check the spelling or try another location."
              /\ result[1].place = None
              /\ result[1].weather = None
              /\ result[1].places = <<>>

\* The provider found no match for a request that wanted both facets
C3_Witness ==
    /\ pc = "done"
    /\ Len(calls) = 1
    /\ HttpOk(calls[1]) /\ calls[1].resp[1].first = "none"
    /\ need_weather /\ need_places
    /\ result # None
    /\ result[1].reply = UNKNOWN_PLACE_REPLY

\* ---- C4
\* C4: an empty trimmed message gets the fixed prompting reply, and a
\* message whose extracted place phrase is null or empty gets the fixed
\* "couldn't identify the place" reply, both with place null, weather null,
\* places empty and no collaborator called; geocode_place is never called
\* with a null or empty place phrase.
C4_InputErrors ==
    /\ (pc # "start" /\ strip(message) = <<>>) =>
          /\ pc = "done"
          /\ calls = <<>>
          /\ result # None
          /\ Flat(result[1].reply) = "Please tell me where you're going and whether you want weather details, places to visit, or both."
          /\ result[1].place = None /\ result[1].weather = None
          /\ result[1].places = <<>>
    /\ (pc # "start" /\ strip(message) # <<>>
          /\ (place_query = None \/ place_query = Some(<<>>))) =>
          /\ pc = "done"
          /\ calls = <<>>
          /\ result # None
          /\ Flat(result[1].reply) = "I couldn't identify the place. Please mention the city name clearly, for example: 'I'm going to Bangalore'."
          /\ result[1].place = None /\ result[1].weather = None
          /\ result[1].places = <<>>
    /\ (pc # "start" /\ strip(message) # <<>>) =>
          place_query = _extract_place_name(message)
    /\ \A i \in 1..Len(calls) :
          calls[i].fn = "geocode_place" =>
              (place_query # None /\ strip(place_query[1]) # <<>>)

\* A non-empty message whose cue is followed by no place: the phrase is
\* empty and the request ended with the clarification reply
C4_Witness ==
    /\ pc = "done"
    /\ message # <<>>
    /\ place_query = Some(<<>>)
    /\ calls = <<>>
    /\ result # None
    /\ result[1].reply = NO_PLACE_REPLY

\* ---- C5
\* Some keyword of kws is a case-insensitive substring of text
KeywordOccurs(kws, text) ==
    \E n \in 1..Len(kws) : \E i \in 1..Len(text) :
        /\ i + Len(kws[n]) - 1 <= Len(text)
        /\ \A k \in 1..Len(kws[n]) : LowerChar(text[i + k - 1]) = kws[n][k]

\* C5: for every text the flags of _parse_intent are never both false;
\* need_weather is true when a weather keyword occurs in the text,
\* need_places when a place-visiting keyword occurs, both when no keyword
\* occurs; a flag is false only when the other set matched and its own did
\* not.
C5_Flags ==
    pc = "parsed" =>
        LET kw_weather == KeywordOccurs(weather_keywords, message)
            kw_places == KeywordOccurs(places_keywords, message)
        IN  /\ need_weather \/ need_places
            /\ kw_weather => need_weather
            /\ kw_places => need_places
            /\ (~kw_weather /\ ~kw_places) => (need_weather /\ need_places)
            /\ ~need_weather => (kw_places /\ ~kw_weather)
            /\ ~need_places => (kw_weather /\ ~kw_places)

\* A text whose only keyword is the upper-case VISIT: places only
C5_Witness ==
    /\ pc = "parsed"
    /\ KeywordOccurs(places_keywords, message)
    /\ ~KeywordOccurs(weather_keywords, message)
    /\ need_places
    /\ ~need_weather

\* ---- C6
\* The terminator the claim pairs with each cue: "going to <X>.",
\* "go to <X>," and "in <X>?"
FormTerminator == << ".", ",", "?" >>

\* text is cue n, one blank, some X and the cue's terminator
HasForm(text, n) ==
    /\ Len(text) >= Len(patterns[n]) + 3
    /\ \A k \in 1..Len(patterns[n]) : LowerChar(text[k]) = patterns[n][k]
    /\ text[Len(patterns[n]) + 1] = " "
    /\ text[Len(text)] = FormTerminator[n]

\* The X of a text of form n
FormX(text, n) == SubSeq(text, Len(patterns[n]) + 2, Len(text) - 1)

\* X holds no sentence-terminating punctuation
NoTerminator(x) == \A k \in 1..Len(x) : x[k] \notin Terminators

\* X is made of ASCII letters and whitespace only
LettersAndSpaces(x) ==
    \A k \in 1..Len(x) :
        x[k] \in UpperLetters \cup LowerLetters \cup Whitespace

\* Pattern n matches somewhere in text
CueMatches(text, n) ==
    \E i \in 1..Len(text) : MatchAt(text, patterns[n], i) # None

\* C6 as stated: for every text "going to <X>.", "go to <X>," or "in <X>?"
\* the extracted place phrase is X trimmed.
C6_AsStated ==
    pc = "parsed" =>
        \A n \in 1..3 :
            (HasForm(message, n) /\ NoTerminator(FormX(message, n)))
                => place_query = Some(strip(FormX(message, n)))

\* C6, amended: for every text that is "going to <X>.", "go to <X>," or
\* "in <X>?" with X made of ASCII letters and whitespace only, and in which
\* no pattern earlier in the order "going to", "go to", "in" matches, the
\* extracted place phrase is X trimmed.
C6_Amended ==
    pc = "parsed" =>
        \A n \in 1..3 :
            (/\ HasForm(message, n)
             /\ LettersAndSpaces(FormX(message, n))
             /\ \A m \in 1..(n - 1) : ~CueMatches(message, m))
                => place_query = Some(strip(FormX(message, n)))

\* "in <X>?" with an X that has a letter: the phrase is X
C6_Witness ==
    /\ pc = "parsed"
    /\ HasForm(message, 3)
    /\ LettersAndSpaces(FormX(message, 3))
    /\ strip(FormX(message, 3)) # <<>>
    /\ place_query = Some(strip(FormX(message, 3)))

\* ---- C7
\* No cue pattern matches the text
NoCue(text) == \A n \in 1..Len(patterns) : ~CueMatches(strip(text), n)

\* The positions of the tokens that start with an upper-case letter
CapitalisedAt(toks) == {i \in 1..Len(toks) : toks[i][1] \in UpperLetters}

IsWeatherLine(line, city) ==
    LET head == <<"In ">> \o city \o <<" it's currently ">>
    IN  Len(line) >= Len(head) /\ SubSeq(line, 1, Len(head)) = head

\* The clause that follows the temperature, by is_raining
RainClause(is_raining) ==
    IF is_raining = Some(TRUE) THEN " and it is currently raining."
    ELSE IF is_raining = Some(FALSE) THEN " and it is not raining right now."
    ELSE ""

\* C8: the reply has a weather line exactly when need_weather is true and
\* weather is present; it is then the first line and the only weather
\* line, and reads "In {city} it's currently {T}[U+00B0]C" with T a whole
\* number at most half a degree from temperature_c (written with the sign
\* of temperature_c), followed by " and it is currently raining.", by
\* " and it is not raining right now." or, when is_raining is null, by
\* nothing at all.
C8_WeatherLine ==
    (pc = "done" /\ result # None) =>
        LET lines == LinesOf(result[1].reply)
            city == location[1].name
            emitted == need_weather /\ weather # None
            tenths == weather[1].temperature_c
            mag == IF tenths < 0 THEN -tenths ELSE tenths
        IN  /\ emitted =>
                  \E T \in 0..((mag \div 10) + 1) :
                      /\ 10 * T - mag <= 5
                      /\ mag - 10 * T <= 5
                      /\ Flat(lines[1]) =
                            "In " \o Flat(city) \o " it's currently "
                            \o (IF tenths < 0 THEN "-" ELSE "")
                            \o ToString(T) \o "[U+00B0]C"
                            \o RainClause(weather[1].is_raining)
            /\ \A i \in 1..Len(lines) :
                  IsWeatherLine(lines[i], city) <=> (emitted /\ i = 1)

\* Weather requested and present with is_raining unknown
C8_Witness ==
    /\ pc = "done"
    /\ result # None
    /\ need_weather
    /\ weather # None
    /\ weather[1].is_raining = None
    /\ weather[1].temperature_c = 245
    /\ IsWeatherLine(LinesOf(result[1].reply)[1], location[1].name)

\* ---- C9
\* C9: when need_places is true the reply has a header line followed by
\* the place names, one per line in the order given, or by the single line
\* "I couldn't find clear tourist attractions nearby." for an empty list.
\* The header is "And these are the places you can go: - - - - -" exactly
\* when a weather line precedes it and "In {city} these are the places you
\* can go: - - - - -" otherwise, so that with both facets requested and a
\* null weather the reply begins with the places header.  The lines are
\* joined by single newlines: no line of the reply is empty.
C9_PlacesBlock ==
    (pc = "done" /\ result # None) =>
        LET reply == result[1].reply
            lines == LinesOf(reply)
            city == location[1].name
            emitted == need_weather /\ weather # None
            h == IF emitted THEN 2 ELSE 1
        IN  /\ need_places =>
                  /\ Len(lines) > h
                  /\ Flat(lines[h]) =
                        IF IsWeatherLine(lines[1], city)
                        THEN "And these are the places you can go: - - - - -"
                        ELSE "In " \o Flat(city)
                             \o " these are the places you can go: - - - - -"
                  /\ IF places # <<>>
                     THEN SubSeq(lines, h + 1, Len(lines)) = places
                     ELSE /\ Len(lines) = h + 1
                          /\ Flat(lines[h + 1]) =
                                "I couldn't find clear tourist attractions nearby."
            /\ (need_places /\ need_weather /\ weather = None) =>
                  Flat(lines[1]) = "In " \o Flat(city)
                                   \o " these are the places you can go: - - - - -"
            /\ \A i \in 1..Len(lines) : lines[i] # <<>>

\* Both facets requested, no weather obtained, places found
C9_Witness ==
    /\ pc = "done"
    /\ result # None
    /\ need_weather /\ need_places
    /\ weather = None
    /\ Len(places) = 2
    /\ Len(LinesOf(result[1].reply)) = 3

\* ---- C10
\* C10: handle_message never replies with the generic clarification line:
\* every request that reaches the compose step gets a weather line or a
\* places block.
C10_NeverGeneric ==
    (pc = "done" /\ result # None /\ location # None) =>
        LET lines == LinesOf(result[1].reply)
            city == location[1].name
        IN  /\ Flat(result[1].reply) #
                  "You asked about " \o Flat(city)
                  \o ", but I couldn't determine whether you want weather info, places to visit, or both. Please ask again with more details."
            /\ \/ IsWeatherLine(lines[1], city)
               \/ need_places /\ Len(lines) >= 2


\* ---- C11
\* The curated keys, by position in the table, that are a substring of name
ExactKeys(name) ==
    { n \in 1..Len(FAMOUS_PLACES) : In(FAMOUS_PLACES[n].city_key, name) }

\* The curated keys, by position, one of whose words is a substring of name
LooseKeys(name) ==
    { n \in 1..Len(FAMOUS_PLACES) :
        \E i \in 1..Len(split(FAMOUS_PLACES[n].city_key)) :
            In(split(FAMOUS_PLACES[n].city_key)[i], name) }

First(S) == CHOOSE n \in S : \A m \in S : n <= m

\* list is the first k entries of full, in order, k the smaller of
\* Len(full) and m
Truncated(list, full, m) ==
    /\ Len(list) = (IF Len(full) < m THEN Len(full) ELSE m)
    /\ \A i \in 1..Len(list) : list[i] = full[i]

\* C11: Place Lookup takes the first curated key, in table order, that is a
\* substring of the location's lower-cased name; otherwise the first key,
\* in table order, one of whose words is a substring of it; the result is
\* then that key's entries in their order truncated to max_results and the
\* live provider is not queried; the provider is queried exactly when no
\* key matches in either way.  A location named "Goa" with max_results 10
\* gives the 7 entries of the key "goa".
C11_LookupOrder ==
    (pc \in {"looked", "raised"}) =>
        LET name == lower(location[1].name)
            exact == ExactKeys(name)
            loose == LooseKeys(name)
            chosen == IF exact # {} THEN First(exact) ELSE First(loose)
        IN  /\ (exact # {} \/ loose # {})
                => /\ pc = "looked"
                   /\ LastCall.resp = None
                   /\ Truncated(places, FAMOUS_PLACES[chosen].places, max_results)
            /\ (exact = {} /\ loose = {}) => LastCall.resp # None
            /\ (location[1].name = <<"G", "o", "a">> /\ max_results = 10)
                => /\ Len(places) = 7
                   /\ \E n \in 1..Len(FAMOUS_PLACES) :
                        /\ FAMOUS_PLACES[n].city_key = <<"g", "o", "a">>
                        /\ places = FAMOUS_PLACES[n].places

\* A name only a word of a key matches ("new" of "new delhi"), with a
\* max_results that truncates the list
C11_Witness ==
    /\ pc = "looked"
    /\ location[1].name = <<"N", "e", "w", " ", "Y", "o", "r", "k">>
    /\ max_results = 2
    /\ Len(places) = 2
    /\ calls[1].resp = None

\* ---- C12
\* name has one of the denylist substrings, case-insensitively
Denylisted(name) ==
    \E k \in 1..Len(banned_substrings) : In(banned_substrings[k], lower(name))

\* The names the provider of call c gave: the non-empty "name" tags of the
\* elements of a 2xx answer
ProviderNames(c) ==
    IF HttpOk(c) /\ c.resp[1].json = "object" /\ c.resp[1].elements_t = "list"
    THEN { c.resp[1].elements[i].name.s : i \in
             { j \in 1..Len(c.resp[1].elements) :
                 /\ c.resp[1].elements[j].tags = "object"
                 /\ c.resp[1].elements[j].name.t = "str"
                 /\ c.resp[1].elements[j].name.s # <<>> } }
    ELSE {}

\* C12: the list Place Lookup returns has at most max_results entries and
\* no two equal entries; when it comes from the live provider it is in
\* ascending string order, holds no empty name and no name with a
\* denylist substring (case-insensitively), and every provider name that
\* is not denylisted is in the list or is greater than its last entry.
C12_ListProperties ==
    (pc = "looked") =>
        /\ Len(places) <= max_results
        /\ \A i, j \in 1..Len(places) : i # j => places[i] # places[j]
        /\ (LastCall.resp # None) =>
            /\ \A i, j \in 1..Len(places) :
                 i < j => ~StrLess(places[j], places[i])
            /\ \A i \in 1..Len(places) :
                 places[i] # <<>> /\ ~Denylisted(places[i])
            /\ \A n \in ProviderNames(LastCall) :
                 \/ Denylisted(n)
                 \/ \E i \in 1..Len(places) : places[i] = n
                 \/ Len(places) > 0 /\ StrLess(places[Len(places)], n)

\* The provider gave more acceptable names than max_results, out of order,
\* one of them twice and two of them denylisted
C12_Witness ==
    /\ pc = "looked"
    /\ LastCall.resp = Some(OverpassMany)
    /\ max_results = 3
    /\ Len(places) = 3

\* ---- C13
\* The states of handle_message in the order of its code
Rank(p) ==
    CASE p = "start" -> 0
      [] p = "geocode" -> 1
      [] p = "weather" -> 2
      [] p = "places" -> 3
      [] p = "compose" -> 4
      [] p = "done" -> 5
      [] p = "raised" -> 5

CallsOf(fn) == { i \in 1..Len(calls) : calls[i].fn = fn }

\* Every step moves forward, and a returned result is never replaced
C13_Step ==
    /\ Rank(pc') > Rank(pc)
    /\ result # None => result' = result

C13_Inv ==
    /\ \A fn \in { "geocode_place", "get_weather_for_location",
                   "get_places_for_location" } : Cardinality(CallsOf(fn)) <= 1
    /\ calls # <<>> => calls[1].fn = "geocode_place"
    /\ CallsOf("get_weather_for_location") # {}
          => need_weather /\ location # None
    /\ CallsOf("get_places_for_location") # {}
          => need_places /\ location # None
    /\ (pc = "done") <=> (result # None)
    /\ (pc = "done") =>
          /\ fault = ""
          /\ result[1].place = location
          /\ (calls # <<>> /\ calls[1].resp # None)
                => result[1].place
                     = geocode_place(place_query[1], calls[1].resp[1]).ret
          /\ ~need_weather => result[1].weather = None
          /\ ~need_places => result[1].places = <<>>

\* handle_message has returned a result, or an awaited call has raised
C13_Terminal == pc = "done" \/ pc = "raised"

\* C13: a request moves through empty-input check and intent, resolve,
\* fan-out and compose strictly forward, and ends: with one result that is
\* never replaced when every collaborator call returns.  Each collaborator
\* is called at most once, the resolver first, Weather Lookup only with
\* need_weather and a location, Place Lookup only with need_places and a
\* location; the result's place is the location the resolver returned, its
\* weather is null without need_weather and its places empty without
\* need_places.
C13_Linear ==
    /\ [][C13_Step]_vars
    /\ []C13_Inv
    /\ <>C13_Terminal

\* A request that made all three calls and returned
C13_Witness ==
    /\ pc = "done"
    /\ Len(calls) = 3
    /\ result[1].place # None
    /\ result[1].weather # None
    /\ result[1].places # <<>>

\* ---- C14
\* The frame of request r: the locals when it is running, else what the
\* event loop saved
FrameOf(r) == IF r = requests.running THEN Frame ELSE requests.frames[r]

\* The response call i of the calls cs got; any when its provider was not
\* asked
RespOf(cs, i, any) ==
    IF i <= Len(cs) /\ cs[i].resp # None THEN cs[i].resp[1] ELSE any

\* What handle_message returns or raises for message msg when it runs
\* alone, never suspended, and its calls get the responses of cs
handle_alone(msg_, cs) ==
    LET msg == strip(msg_)
        intent == _parse_intent(msg)
        g == geocode_place(intent.place_query[1], RespOf(cs, 1, NominatimOk))
        w == IF intent.need_weather
             THEN get_weather_for_location(g.ret[1], RespOf(cs, 2, OpenMeteoOk))
             ELSE Returns(None, FALSE)
        p == IF intent.need_places
             THEN get_places_for_location(
                    g.ret[1], max_results_default,
                    RespOf(cs, IF intent.need_weather THEN 3 ELSE 2, OverpassOk))
             ELSE Returns(<<>>, FALSE)
        Reply(r) == [fault |-> "", result |-> Some(r)]
        Fault(e) == [fault |-> e, result |-> None]
    IN  IF msg = <<>>
        THEN Reply(TourismAgentResult(EMPTY_MESSAGE_REPLY, None, None, <<>>))
        ELSE IF not_(intent.place_query)
        THEN Reply(TourismAgentResult(NO_PLACE_REPLY, None, None, <<>>))
        ELSE IF g.exc # "" THEN Fault(g.exc)
        ELSE IF g.ret = None
        THEN Reply(TourismAgentResult(UNKNOWN_PLACE_REPLY, None, None, <<>>))
        ELSE IF w.exc # "" THEN Fault(w.exc)
        ELSE IF p.exc # "" THEN Fault(p.exc)
        ELSE Reply(TourismAgentResult(
                     _compose_reply(msg, g.ret[1], w.ret, p.ret,
                                    intent.need_weather, intent.need_places),
                     g.ret, w.ret, p.ret))

OtherMessages == { <<>>, <<"G", "o", "a">>, <<"h", "o", "t", " ", "i", "n", " ", "O", "o", "t", "y">>, <<"V", "I", "S", "I", "T", " ", "K", "-", "2", "?">> }

C15_Step ==
    /\ calls' = calls
    /\ fault' = fault
    /\ << location', weather', places', need_weather', need_places' >>
         = << location, weather, places, need_weather, need_places >>
    /\ \A m \in OtherMessages :
         result'[1].reply
           = _compose_reply(m, location[1], weather, places,
                            need_weather, need_places)
    /\ pc = "done" => result' = result

====
